---- MODULE Spec2Model ----
(***************************************************************************)
(* A model of src/src/lib/match.ts: the path-pattern lexer, the parser,    *)
(* the path builder (tokensToFunction), the pattern-to-regex compiler      *)
(* (tokensToRegexp and friends) and the matcher (regexpToFunction).        *)
(*                                                                         *)
(* Strings are sequences of one-character strings, so that indexing,       *)
(* concatenation and escaping are computed as the code computes them.      *)
(* The JavaScript value undefined is the one-element sequence Undefined,   *)
(* which no string can equal (its element is not a single character).      *)
(***************************************************************************)
EXTENDS Integers, Sequences, FiniteSets, TLC

VARIABLES
    str,        \* lexer(str): the string being scanned
    lx,         \* lexer(str): the locals i, tokens and the error thrown, if any
    pc,         \* which call was made last
    input,      \* match(str, options) / compile(str, options): the Path argument
    opts,       \* the options argument
    art,        \* what match(str, options) returned: the regex and its keys, or the error
    fn,         \* what compile(str, options) returned: the builder, or the error
    data,       \* the builder call's argument
    out,        \* the builder call's outcome
    pathname,   \* the matcher call's argument
    res         \* the matcher call's outcome

vars == <<str, lx, pc, input, opts, art, fn, data, out, pathname, res>>

----------------------------------------------------------------------------
(* Bounds of the model.                                                    *)

\* longest string handed to the stepwise lexer
MaxLexLen == 4

----------------------------------------------------------------------------
(* Strings.                                                                *)

Undefined == <<"undefined">>

\* str[i] with a 0-based index: undefined outside the string
At(s, i) == IF i >= 0 /\ i < Len(s) THEN <<s[i + 1]>> ELSE Undefined

\* what string concatenation makes of str[i]
Text(v) == IF v = Undefined THEN <<"u", "n", "d", "e", "f", "i", "n", "e", "d">> ELSE v

Truthy(v) == v # Undefined /\ v # <<>>

RECURSIVE StringsUpTo(_, _)
StringsUpTo(alphabet, n) ==
    IF n = 0 THEN {<<>>}
    ELSE LET shorter == StringsUpTo(alphabet, n - 1)
         IN  shorter \cup {Append(s, c) : s \in {t \in shorter : Len(t) = n - 1}, c \in alphabet}

Digits == {"0", "1", "2", "3", "4", "5", "6", "7", "8", "9"}
LowerCase == {"a", "b", "c", "d", "e", "f", "g", "h", "i", "j", "k", "l", "m",
              "n", "o", "p", "q", "r", "s", "t", "u", "v", "w", "x", "y", "z"}
UpperCase == {"A", "B", "C", "D", "E", "F", "G", "H", "I", "J", "K", "L", "M",
              "N", "O", "P", "Q", "R", "S", "T", "U", "V", "W", "X", "Y", "Z"}

\* the character codes 48-57, 65-90, 97-122 and 95
NameChars == Digits \cup UpperCase \cup LowerCase \cup {"_"}

----------------------------------------------------------------------------
(* lexer                                                                   *)

NoError == [kind |-> "none"]
SyntaxError(kind, at) == [kind |-> kind, at |-> at]

LexToken(type, index, value) == [type |-> type, index |-> index, value |-> value]

LexStart == [i |-> 0, tokens |-> <<>>, err |-> NoError, done |-> FALSE]

\* the character the loop is looking at
LexChar(s, st) == At(s, st.i)

LexRunning(s, st) == ~st.done /\ st.err = NoError /\ st.i < Len(s)

Push(st, tok, i) == [st EXCEPT !.tokens = Append(@, tok), !.i = i]

LexModifier(s, st) == Push(st, LexToken("MODIFIER", st.i, At(s, st.i)), st.i + 1)

\* index: i++, value: str[i++]
LexEscaped(s, st) == Push(st, LexToken("ESCAPED_CHAR", st.i, At(s, st.i + 1)), st.i + 2)

LexOpen(s, st) == Push(st, LexToken("OPEN", st.i, At(s, st.i)), st.i + 1)

LexClose(s, st) == Push(st, LexToken("CLOSE", st.i, At(s, st.i)), st.i + 1)

RECURSIVE ScanName(_, _)
\* the inner while loop of the ":" branch: the index after the identifier
ScanName(s, j) ==
    IF j < Len(s) /\ s[j + 1] \in NameChars THEN ScanName(s, j + 1) ELSE j

SubStr(s, from, to) == [k \in 1..(to - from) |-> s[from + k]]

LexName(s, st) ==
    LET j == ScanName(s, st.i + 1)
        name == SubStr(s, st.i + 1, j)
    IN  IF name = <<>>
        THEN [st EXCEPT !.err = SyntaxError("MissingParameterName", st.i)]
        ELSE Push(st, LexToken("NAME", st.i, name), j)

RECURSIVE ScanPattern(_, _, _, _)
\* the inner while loop of the "(" branch
ScanPattern(s, j, count, pattern) ==
    IF j >= Len(s) THEN [j |-> j, count |-> count, pattern |-> pattern, err |-> NoError]
    ELSE IF s[j + 1] = "\\"
    THEN ScanPattern(s, j + 2, count, pattern \o <<s[j + 1]>> \o Text(At(s, j + 1)))
    ELSE IF s[j + 1] = ")" /\ count = 1
    THEN [j |-> j + 1, count |-> 0, pattern |-> pattern, err |-> NoError]
    ELSE IF s[j + 1] = ")"
    THEN ScanPattern(s, j + 1, count - 1, Append(pattern, s[j + 1]))
    ELSE IF s[j + 1] = "("
    THEN IF At(s, j + 1) # <<"?">>
         THEN [j |-> j, count |-> count + 1, pattern |-> pattern,
               err |-> SyntaxError("CapturingGroupNotAllowed", j)]
         ELSE ScanPattern(s, j + 1, count + 1, Append(pattern, s[j + 1]))
    ELSE ScanPattern(s, j + 1, count, Append(pattern, s[j + 1]))

\* reports the offset the scan stopped at instead of the opening parenthesis
LexPatternAtJ(s, st) ==
    IF At(s, st.i + 1) = <<"?">>
    THEN [st EXCEPT !.err = SyntaxError("PatternCannotStartWithQuestionMark", st.i + 1)]
    ELSE LET r == ScanPattern(s, st.i + 1, 1, <<>>)
         IN  IF r.err # NoError THEN [st EXCEPT !.err = r.err]
             ELSE IF r.count # 0 THEN [st EXCEPT !.err = SyntaxError("UnbalancedPattern", r.j)]
             ELSE IF r.pattern = <<>> THEN [st EXCEPT !.err = SyntaxError("MissingPattern", st.i)]
             ELSE Push(st, LexToken("PATTERN", st.i, r.pattern), r.j)

LexPattern(s, st) ==
    IF At(s, st.i + 1) = <<"?">>
    THEN [st EXCEPT !.err = SyntaxError("PatternCannotStartWithQuestionMark", st.i + 1)]
    ELSE LET r == ScanPattern(s, st.i + 1, 1, <<>>)
         IN  IF r.err # NoError THEN [st EXCEPT !.err = r.err]
             ELSE IF r.count # 0 THEN [st EXCEPT !.err = SyntaxError("UnbalancedPattern", st.i)]
             ELSE IF r.pattern = <<>> THEN [st EXCEPT !.err = SyntaxError("MissingPattern", st.i)]
             ELSE Push(st, LexToken("PATTERN", st.i, r.pattern), r.j)

LexLiteral(s, st) == Push(st, LexToken("CHAR", st.i, At(s, st.i)), st.i + 1)

LexEnd(s, st) == [Push(st, LexToken("END", st.i, <<>>), st.i) EXCEPT !.done = TRUE]

IsModifierChar(c) == c \in {<<"*">>, <<"+">>, <<"?">>}

\* one pass of the outer while loop, or the push of END after it
LexStep(s, st) ==
    LET c == LexChar(s, st)
    IN  IF ~LexRunning(s, st) THEN LexEnd(s, st)
        ELSE IF IsModifierChar(c) THEN LexModifier(s, st)
        ELSE IF c = <<"\\">> THEN LexEscaped(s, st)
        ELSE IF c = <<"{">> THEN LexOpen(s, st)
        ELSE IF c = <<"}">> THEN LexClose(s, st)
        ELSE IF c = <<":">> THEN LexName(s, st)
        ELSE IF c = <<"(">> THEN LexPattern(s, st)
        ELSE LexLiteral(s, st)

RECURSIVE LexRun(_, _)
LexRun(s, st) == IF st.done \/ st.err # NoError THEN st ELSE LexRun(s, LexStep(s, st))

\* lexer(str): the tokens, or the error thrown
lexer(s) == LexRun(s, LexStart)

----------------------------------------------------------------------------
(* Options: a record holding the fields the caller gave, <<>> for none.    *)

NoOptions == <<>>
Given(o, f) == f \in DOMAIN o

\* options.f ?? dflt
OrElse(o, f, dflt) == IF Given(o, f) THEN o[f] ELSE dflt

\* options.f || dflt, for a string field
OrDefault(o, f, dflt) == IF Given(o, f) /\ o[f] # <<>> THEN o[f] ELSE dflt

RECURSIVE escapeString(_)
escapeString(s) ==
    IF s = <<>> THEN <<>>
    ELSE (IF Head(s) \in {".", "+", "*", "?", "=", "^", "!", ":", "$", "{", "}", "(", ")",
                          "[", "]", "|", "/", "\\"}
          THEN <<"\\", Head(s)>> ELSE <<Head(s)>>)
         \o escapeString(Tail(s))

\* flags(options): TRUE when the regex carries the i flag
flags(o) == ~(Given(o, "sensitive") /\ o.sensitive)

DefaultDelimiter == <<"/", "#", "?">>

Contains(s, c) == \E k \in 1..Len(s) : s[k] = c

----------------------------------------------------------------------------
(* parse                                                                   *)

DigitText == <<"0", "1", "2", "3", "4", "5", "6", "7", "8", "9">>

RECURSIVE NumberText(_)
\* String(n) for a natural number
NumberText(n) == IF n < 10 THEN <<DigitText[n + 1]>> ELSE Append(NumberText(n \div 10), DigitText[(n % 10) + 1])

\* A Key.  name holds the property name the Key reads and writes (a number's
\* decimal form); ordinal tells a number from a declared identifier.
Key(name, ordinal, prefix, suffix, pattern, modifier) ==
    [isKey |-> TRUE, name |-> name, ordinal |-> ordinal, prefix |-> prefix,
     suffix |-> suffix, pattern |-> pattern, modifier |-> modifier]

tryConsume(tokens, i, type) ==
    IF i < Len(tokens) /\ tokens[i + 1].type = type
    THEN [value |-> tokens[i + 1].value, i |-> i + 1]
    ELSE [value |-> Undefined, i |-> i]

\* mustConsume: the error it throws when the type does not come next
UnexpectedToken(tokens, i, type) ==
    [kind |-> "UnexpectedToken", found |-> tokens[i + 1].type,
     at |-> tokens[i + 1].index, expected |-> type]

RECURSIVE consumeText(_, _, _)
consumeText(tokens, i, text) ==
    LET c == tryConsume(tokens, i, "CHAR")
        e == IF Truthy(c.value) THEN c ELSE tryConsume(tokens, c.i, "ESCAPED_CHAR")
    IN  IF Truthy(e.value) THEN consumeText(tokens, e.i, text \o e.value)
        ELSE [value |-> text, i |-> e.i]

OrEmpty(v) == IF Truthy(v) THEN v ELSE <<>>

\* result.push(path) for a literal Path Token, if there is text to push
Flush(result, path) ==
    IF path # <<>> THEN Append(result, [isKey |-> FALSE, text |-> path]) ELSE result

\* the branch of the loop taken when a NAME or a PATTERN token comes next
ParseParam(tokens, st, prefixes, defaultPattern, char, name, pattern, i) ==
    LET isPrefix == char = <<>> \/ Contains(prefixes, char[1])
        prefix == IF isPrefix THEN char ELSE <<>>
        path == IF isPrefix THEN st.path ELSE st.path \o char
        mod == tryConsume(tokens, i, "MODIFIER")
        key == Key(IF Truthy(name) THEN name ELSE NumberText(st.key), ~Truthy(name),
                   prefix, <<>>, IF Truthy(pattern) THEN pattern ELSE defaultPattern,
                   OrEmpty(mod.value))
    IN  [st EXCEPT !.i = mod.i,
                   !.key = IF Truthy(name) THEN @ ELSE @ + 1,
                   !.path = <<>>,
                   !.result = Append(Flush(@, path), key)]

\* the branch of the loop taken after an OPEN token
ParseGroup(tokens, st, defaultPattern, i) ==
    LET prefix == consumeText(tokens, i, <<>>)
        n == tryConsume(tokens, prefix.i, "NAME")
        p == tryConsume(tokens, n.i, "PATTERN")
        suffix == consumeText(tokens, p.i, <<>>)
        close == tryConsume(tokens, suffix.i, "CLOSE")
        mod == tryConsume(tokens, close.i, "MODIFIER")
        name == OrEmpty(n.value)
        pattern == OrEmpty(p.value)
        numbered == name = <<>> /\ pattern # <<>>
        key == Key(IF numbered THEN NumberText(st.key) ELSE name, numbered,
                   prefix.value, suffix.value,
                   IF name # <<>> /\ pattern = <<>> THEN defaultPattern ELSE pattern,
                   OrEmpty(mod.value))
    IN  IF close.value = Undefined
        THEN [st EXCEPT !.err = UnexpectedToken(tokens, suffix.i, "CLOSE")]
        ELSE [st EXCEPT !.i = mod.i,
                        !.key = IF numbered THEN @ + 1 ELSE @,
                        !.result = Append(@, key)]

\* one pass of the while loop of parse
ParseStep(tokens, st, prefixes, defaultPattern) ==
    LET c == tryConsume(tokens, st.i, "CHAR")
        n == tryConsume(tokens, c.i, "NAME")
        p == tryConsume(tokens, n.i, "PATTERN")
        e == IF Truthy(c.value) THEN c ELSE tryConsume(tokens, p.i, "ESCAPED_CHAR")
        flushed == [st EXCEPT !.i = e.i, !.path = <<>>, !.result = Flush(@, st.path)]
        open == tryConsume(tokens, e.i, "OPEN")
        end == tryConsume(tokens, open.i, "END")
    IN  IF Truthy(n.value) \/ Truthy(p.value)
        THEN ParseParam(tokens, st, prefixes, defaultPattern, OrEmpty(c.value), n.value, p.value, p.i)
        ELSE IF Truthy(e.value)
        THEN [st EXCEPT !.i = e.i, !.path = @ \o e.value]
        ELSE IF Truthy(open.value)
        THEN ParseGroup(tokens, flushed, defaultPattern, open.i)
        ELSE IF end.value = Undefined
        THEN [flushed EXCEPT !.err = UnexpectedToken(tokens, e.i, "END")]
        ELSE [flushed EXCEPT !.i = end.i]

RECURSIVE ParseRun(_, _, _, _)
ParseRun(tokens, st, prefixes, defaultPattern) ==
    IF st.err # NoError \/ st.i >= Len(tokens) THEN st
    ELSE ParseRun(tokens, ParseStep(tokens, st, prefixes, defaultPattern), prefixes, defaultPattern)

\* what parse returns when its loop ends in st
ParseResult(st) ==
    IF st.err # NoError THEN [err |-> st.err, tokens |-> <<>>]
    ELSE [err |-> NoError, tokens |-> st.result]

\* parse from the lexer's result on
ParseLexed(lexed, o) ==
    IF lexed.err # NoError THEN [err |-> lexed.err, tokens |-> <<>>]
    ELSE ParseResult(ParseRun(lexed.tokens,
                              [i |-> 0, key |-> 0, path |-> <<>>, result |-> <<>>, err |-> NoError],
                              OrElse(o, "prefixes", <<".", "/">>),
                              <<"[", "^">> \o escapeString(OrDefault(o, "delimiter", DefaultDelimiter))
                              \o <<"]", "+", "?">>))

\* parse(str, options): the Path Tokens, or the error thrown
parse(s, o) == ParseLexed(lexer(s), o)

----------------------------------------------------------------------------
(* The regular expressions of the host language: new RegExp(source, flags) *)
(* parses the source into a tree, re.exec(input) runs a backtracking       *)
(* match over it.  The syntax covered is the one the compiler emits and    *)
(* the inline patterns of the model use: characters, identity escapes,     *)
(* \d, ".", classes without ranges, capturing, named and non-capturing     *)
(* groups, lookaheads, "|", "^", "$" and the quantifiers * + ? with their  *)
(* lazy forms.                                                             *)

ReFail(why, pos) == [ok |-> FALSE, why |-> why, pos |-> pos]
ReOk(node, pos, g) == [ok |-> TRUE, node |-> node, pos |-> pos, g |-> g]

Unbounded == -1

RECURSIVE ReClassItems(_, _, _)
\* the members of a character class, up to its "]"
ReClassItems(src, pos, set) ==
    IF pos >= Len(src) THEN ReFail("Unterminated character class", pos)
    ELSE IF src[pos + 1] = "]" THEN [ok |-> TRUE, set |-> set, pos |-> pos + 1]
    ELSE IF src[pos + 1] = "\\"
    THEN IF pos + 1 >= Len(src) THEN ReFail("\\ at end of pattern", pos)
         ELSE ReClassItems(src, pos + 2,
                           set \cup (IF src[pos + 2] = "d" THEN Digits ELSE {src[pos + 2]}))
    ELSE ReClassItems(src, pos + 1, set \cup {src[pos + 1]})

ReClass(src, pos, g) ==
    LET neg == At(src, pos + 1) = <<"^">>
        items == ReClassItems(src, IF neg THEN pos + 2 ELSE pos + 1, {})
    IN  IF ~items.ok THEN items
        ELSE ReOk([t |-> "class", neg |-> neg, set |-> items.set], items.pos, g)

RECURSIVE ReGroupName(_, _)
\* the index of the ">" that ends a group name, or -1
ReGroupName(src, pos) ==
    IF pos >= Len(src) THEN -1
    ELSE IF src[pos + 1] = ">" THEN pos
    ELSE IF src[pos + 1] \in NameChars THEN ReGroupName(src, pos + 1)
    ELSE -1

\* an atom followed by a quantifier, if one comes next
ReQuantified(src, atom, before) ==
    LET q == At(src, atom.pos)
        lazy == At(src, atom.pos + 1) = <<"?">>
    IN  IF ~atom.ok \/ ~IsModifierChar(q) THEN atom
        ELSE ReOk([t |-> "rep", d |-> atom.node,
                   min |-> IF q = <<"+">> THEN 1 ELSE 0,
                   max |-> IF q = <<"?">> THEN 1 ELSE Unbounded,
                   greedy |-> ~lazy, lo |-> before.n + 1, hi |-> atom.g.n],
                  IF lazy THEN atom.pos + 2 ELSE atom.pos + 1, atom.g)

RECURSIVE ReDisjunction(_, _, _)
RECURSIVE ReAlternative(_, _, _, _)
RECURSIVE ReTerm(_, _, _)
RECURSIVE ReGroup(_, _, _)

\* the alternation of a with the alternatives parsed after its "|"
ReJoin(a, rest) ==
    IF ~rest.ok THEN rest
    ELSE ReOk([t |-> "alt", alts |-> <<a.node, rest.node>>], rest.pos, rest.g)

\* what follows the alternative a: a "|" and more alternatives, or nothing
ReDisjunctionAfter(src, a) ==
    IF ~a.ok \/ At(src, a.pos) # <<"|">> THEN a
    ELSE ReJoin(a, ReDisjunction(src, a.pos + 1, a.g))

\* Alternative ("|" Alternative)*
ReDisjunction(src, pos, g) == ReDisjunctionAfter(src, ReAlternative(src, pos, g, <<>>))

\* the terms that follow term in its alternative
ReAlternativeAfter(src, items, term) ==
    IF ~term.ok THEN term
    ELSE ReAlternative(src, term.pos, term.g, Append(items, term.node))

\* Term*
ReAlternative(src, pos, g, items) ==
    IF pos >= Len(src) \/ src[pos + 1] \in {"|", ")"}
    THEN ReOk([t |-> "seq", items |-> items], pos, g)
    ELSE ReAlternativeAfter(src, items, ReTerm(src, pos, g))

\* the group opened at pos once its body is parsed: cap is its number, 0
\* when it does not capture
ReGroupClose(src, pos, cap, kind, body) ==
    IF ~body.ok THEN body
    ELSE IF At(src, body.pos) # <<")">> THEN ReFail("Unterminated group", pos)
    ELSE ReOk(IF cap > 0 \/ kind = <<":">> THEN [t |-> "group", cap |-> cap, d |-> body.node]
              ELSE [t |-> "look", neg |-> kind = <<"!">>, d |-> body.node],
              body.pos + 1, body.g)

\* a named group (?<name>...) whose name ends before gt
ReNamedGroup(src, pos, g, gt, name) ==
    IF gt < 0 \/ name = <<>> \/ name[1] \in Digits THEN ReFail("Invalid capture group name", pos)
    ELSE IF name \in g.names THEN ReFail("Duplicate capture group name", pos)
    ELSE ReGroupClose(src, pos, g.n + 1, <<"<">>,
                      ReDisjunction(src, gt + 1, [n |-> g.n + 1, names |-> g.names \cup {name}]))

\* a group (?x...) of kind x
ReSpecialGroup(src, pos, g, kind, gt) ==
    IF kind \notin {<<":">>, <<"=">>, <<"!">>, <<"<">>} THEN ReFail("Invalid group", pos)
    ELSE IF kind = <<"<">> THEN ReNamedGroup(src, pos, g, gt, SubStr(src, pos + 3, gt))
    ELSE ReGroupClose(src, pos, 0, kind, ReDisjunction(src, pos + 3, g))

\* "(" ... ")" in its five forms
ReGroup(src, pos, g) ==
    IF At(src, pos + 1) = <<"?">>
    THEN ReSpecialGroup(src, pos, g, At(src, pos + 2), ReGroupName(src, pos + 3))
    ELSE ReGroupClose(src, pos, g.n + 1, <<>>,
                      ReDisjunction(src, pos + 1, [n |-> g.n + 1, names |-> g.names]))

\* an assertion, or an atom with its quantifier
ReTerm(src, pos, g) ==
    LET c == src[pos + 1]
    IN  IF c = "^" THEN ReOk([t |-> "bol"], pos + 1, g)
        ELSE IF c = "$" THEN ReOk([t |-> "eol"], pos + 1, g)
        ELSE IF c \in {"*", "+", "?"} THEN ReFail("Nothing to repeat", pos)
        ELSE IF c = "(" THEN ReQuantified(src, ReGroup(src, pos, g), g)
        ELSE IF c = "[" THEN ReQuantified(src, ReClass(src, pos, g), g)
        ELSE IF c = "." THEN ReQuantified(src, ReOk([t |-> "any"], pos + 1, g), g)
        ELSE IF c = "\\"
        THEN IF pos + 1 >= Len(src) THEN ReFail("\\ at end of pattern", pos)
             ELSE IF src[pos + 2] = "d"
             THEN ReQuantified(src, ReOk([t |-> "class", neg |-> FALSE, set |-> Digits], pos + 2, g), g)
             ELSE ReQuantified(src, ReOk([t |-> "char", c |-> src[pos + 2]], pos + 2, g), g)
        ELSE ReQuantified(src, ReOk([t |-> "char", c |-> c], pos + 1, g), g)

\* new RegExp(source, flags): the compiled regex, or the SyntaxError
RegExpOf(source, ignoreCase, d) ==
    IF ~d.ok THEN [ok |-> FALSE, why |-> d.why]
    ELSE IF d.pos < Len(source) THEN [ok |-> FALSE, why |-> "Unmatched ')'"]
    ELSE [ok |-> TRUE, source |-> source, ignoreCase |-> ignoreCase,
          node |-> d.node, groups |-> d.g.n]

RegExp(source, ignoreCase) == 
    RegExpOf(source, ignoreCase, ReDisjunction(source, 0, [n |-> 0, names |-> {}]))

UpperText == <<"A", "B", "C", "D", "E", "F", "G", "H", "I", "J", "K", "L", "M",
               "N", "O", "P", "Q", "R", "S", "T", "U", "V", "W", "X", "Y", "Z">>
LowerText == <<"a", "b", "c", "d", "e", "f", "g", "h", "i", "j", "k", "l", "m",
               "n", "o", "p", "q", "r", "s", "t", "u", "v", "w", "x", "y", "z">>

\* the canonical form under which the i flag compares characters
Canonicalize(c, ignoreCase) ==
    IF ignoreCase /\ c \in LowerCase
    THEN UpperText[CHOOSE k \in 1..26 : LowerText[k] = c]
    ELSE c

ReState(pos, caps) == [pos |-> pos, caps |-> caps]

ResetCaps(caps, lo, hi) == [k \in 1..Len(caps) |-> IF k >= lo /\ k <= hi THEN Undefined ELSE caps[k]]

RECURSIVE ReMatch(_, _, _, _, _)
RECURSIVE ReSeq(_, _, _, _, _, _)
RECURSIVE ReSeqOver(_, _, _, _, _, _)
RECURSIVE ReAlt(_, _, _, _, _, _)
RECURSIVE ReRep(_, _, _, _, _, _)
RECURSIVE ReRepOver(_, _, _, _, _, _, _)

\* every way node matches s at pos, the one the engine prefers first
ReMatch(node, s, pos, caps, ic) ==
    CASE node.t = "char" ->
            IF pos < Len(s) /\ Canonicalize(s[pos + 1], ic) = Canonicalize(node.c, ic)
            THEN <<ReState(pos + 1, caps)>> ELSE <<>>
      [] node.t = "any" ->
            IF pos < Len(s) THEN <<ReState(pos + 1, caps)>> ELSE <<>>
      [] node.t = "class" ->
            IF pos < Len(s)
               /\ (node.neg # (\E m \in node.set : Canonicalize(m, ic) = Canonicalize(s[pos + 1], ic)))
            THEN <<ReState(pos + 1, caps)>> ELSE <<>>
      [] node.t = "bol" -> IF pos = 0 THEN <<ReState(pos, caps)>> ELSE <<>>
      [] node.t = "eol" -> IF pos = Len(s) THEN <<ReState(pos, caps)>> ELSE <<>>
      [] node.t = "look" ->
            LET r == ReMatch(node.d, s, pos, caps, ic)
            IN  IF node.neg THEN (IF r = <<>> THEN <<ReState(pos, caps)>> ELSE <<>>)
                ELSE (IF r = <<>> THEN <<>> ELSE <<ReState(pos, r[1].caps)>>)
      [] node.t = "group" ->
            LET r == ReMatch(node.d, s, pos, caps, ic)
            IN  IF node.cap = 0 THEN r
                ELSE [k \in 1..Len(r) |->
                        ReState(r[k].pos, [r[k].caps EXCEPT ![node.cap] = SubStr(s, pos, r[k].pos)])]
      [] node.t = "seq" -> ReSeq(node.items, 1, s, pos, caps, ic)
      [] node.t = "alt" -> ReAlt(node.alts, 1, s, pos, caps, ic)
      [] node.t = "rep" -> ReRep(node, s, pos, caps, ic, 0)

ReSeq(items, k, s, pos, caps, ic) ==
    IF k > Len(items) THEN <<ReState(pos, caps)>>
    ELSE ReSeqOver(ReMatch(items[k], s, pos, caps, ic), 1, items, k + 1, s, ic)

\* the rest of a sequence after each way its head matched
ReSeqOver(heads, h, items, k, s, ic) ==
    IF h > Len(heads) THEN <<>>
    ELSE ReSeq(items, k, s, heads[h].pos, heads[h].caps, ic)
         \o ReSeqOver(heads, h + 1, items, k, s, ic)

ReAlt(alts, k, s, pos, caps, ic) ==
    IF k > Len(alts) THEN <<>>
    ELSE ReMatch(alts[k], s, pos, caps, ic) \o ReAlt(alts, k + 1, s, pos, caps, ic)

\* a quantified atom that has matched count times so far
ReRep(node, s, pos, caps, ic, count) ==
    LET stop == IF count >= node.min THEN <<ReState(pos, caps)>> ELSE <<>>
        more == IF node.max = Unbounded \/ count < node.max
                THEN ReRepOver(ReMatch(node.d, s, pos, ResetCaps(caps, node.lo, node.hi), ic),
                               1, node, s, pos, ic, count)
                ELSE <<>>
    IN  IF node.greedy THEN more \o stop ELSE stop \o more

\* the further repetitions after each way one repetition matched; an empty
\* repetition that is not required is refused
ReRepOver(heads, h, node, s, pos, ic, count) ==
    IF h > Len(heads) THEN <<>>
    ELSE (IF heads[h].pos = pos /\ count >= node.min THEN <<>>
          ELSE ReRep(node, s, heads[h].pos, heads[h].caps, ic, count + 1))
         \o ReRepOver(heads, h + 1, node, s, pos, ic, count)

RECURSIVE ReExecFrom(_, _, _)
\* re.exec(s) trying the start offsets from `from` on
ReExecFrom(re, s, from) ==
    IF from > Len(s) THEN [matched |-> FALSE]
    ELSE LET r == ReMatch(re.node, s, from, [k \in 1..re.groups |-> Undefined], re.ignoreCase)
         IN  IF r = <<>> THEN ReExecFrom(re, s, from + 1)
             ELSE [matched |-> TRUE, index |-> from, end |-> r[1].pos,
                   m |-> <<SubStr(s, from, r[1].pos)>> \o r[1].caps]

\* re.exec(s) of a regex without the g flag: m[0], m[1] ... and m.index
exec(re, s) == ReExecFrom(re, s, 0)

\* re.test(s)
test(re, s) == exec(re, s).matched

----------------------------------------------------------------------------
(* tokensToFunction and compile: the path builder.                         *)
(* The encode hook is the default one, the identity.                       *)

\* the values a property of the data object can hold
StringValue(v) == [k |-> "string", text |-> v]
NumberValue(n) == [k |-> "number", n |-> n]
ArrayValue(v) == [k |-> "array", items |-> v]
Missing == [k |-> "undefined"]

\* data ? data[token.name] : undefined
Lookup(d, name) == IF d.k = "object" /\ name \in DOMAIN d.props THEN d.props[name] ELSE Missing

DataObject(props) == [k |-> "object", props |-> props]

\* new RegExp(`^(?:${token.pattern})$`, reFlags)
ValidationRegExp(token, o) ==
    RegExp(<<"^", "(", "?", ":">> \o token.pattern \o <<")", "$">>, flags(o))

BuildError(kind, token) == [kind |-> kind, name |-> token.name]

Built(path) == [kind |-> "ok", path |-> path]

RECURSIVE BuildArray(_, _, _, _, _, _)
\* the for loop over the elements of an array value, the suffix put before
\* the element and the prefix after it
BuildArraySwapped(token, re, validate, value, j, path) ==
    IF j > Len(value) THEN Built(path)
    ELSE IF validate /\ ~test(re, value[j])
    THEN [kind |-> "ValueDoesNotMatchPattern", name |-> token.name,
          pattern |-> token.pattern, segment |-> value[j]]
    ELSE BuildArray(token, re, validate, value, j + 1,
                    path \o token.suffix \o value[j] \o token.prefix)

\* the for loop over the elements of an array value
BuildArray(token, re, validate, value, j, path) ==
    IF j > Len(value) THEN Built(path)
    ELSE IF validate /\ ~test(re, value[j])
    THEN [kind |-> "ValueDoesNotMatchPattern", name |-> token.name,
          pattern |-> token.pattern, segment |-> value[j]]
    ELSE BuildArray(token, re, validate, value, j + 1,
                    path \o token.prefix \o value[j] \o token.suffix)

\* what one Key adds to the path, with the "optional" test inverted
BuildKeyInverted(token, o, value, path) ==
    LET optional == ~(token.modifier \in {<<"?">>, <<"*">>})
        repeat == token.modifier \in {<<"*">>, <<"+">>}
        validate == OrElse(o, "validate", TRUE)
        re == ValidationRegExp(token, o)
        segment == IF value.k = "number" THEN NumberText(value.n) ELSE value.text
    IN  IF value.k = "array"
        THEN IF ~repeat THEN BuildError("NotRepeatable", token)
             ELSE IF value.items = <<>>
             THEN (IF optional THEN Built(path) ELSE BuildError("EmptyRepeatable", token))
             ELSE BuildArray(token, re, validate, value.items, 1, path)
        ELSE IF value.k \in {"string", "number"}
        THEN IF validate /\ ~test(re, segment)
             THEN [kind |-> "ValueDoesNotMatchPattern", name |-> token.name,
                   pattern |-> token.pattern, segment |-> segment]
             ELSE Built(path \o token.prefix \o segment \o token.suffix)
        ELSE IF optional THEN Built(path)
        ELSE [kind |-> "ExpectedStringOrArray", name |-> token.name,
              expected |-> IF repeat THEN "an array" ELSE "a string"]

\* what one Key adds to the path: the body of the for loop for a Key
BuildKey(token, o, value, path) ==
    LET optional == token.modifier \in {<<"?">>, <<"*">>}
        repeat == token.modifier \in {<<"*">>, <<"+">>}
        validate == OrElse(o, "validate", TRUE)
        re == ValidationRegExp(token, o)
        segment == IF value.k = "number" THEN NumberText(value.n) ELSE value.text
    IN  IF value.k = "array"
        THEN IF ~repeat THEN BuildError("NotRepeatable", token)
             ELSE IF value.items = <<>>
             THEN (IF optional THEN Built(path) ELSE BuildError("EmptyRepeatable", token))
             ELSE BuildArray(token, re, validate, value.items, 1, path)
        ELSE IF value.k \in {"string", "number"}
        THEN IF validate /\ ~test(re, segment)
             THEN [kind |-> "ValueDoesNotMatchPattern", name |-> token.name,
                   pattern |-> token.pattern, segment |-> segment]
             ELSE Built(path \o token.prefix \o segment \o token.suffix)
        ELSE IF optional THEN Built(path)
        ELSE [kind |-> "ExpectedStringOrArray", name |-> token.name,
              expected |-> IF repeat THEN "an array" ELSE "a string"]

RECURSIVE BuildRun(_, _, _, _, _)
\* the loop after the Key tokens[i] gave r: a throw ends it
BuildNext(tokens, i, o, d, r) ==
    IF r.kind # "ok" THEN r ELSE BuildRun(tokens, i + 1, o, d, r.path)

\* the for loop over the Path Tokens
BuildRun(tokens, i, o, d, path) ==
    IF i > Len(tokens) THEN Built(path)
    ELSE IF ~tokens[i].isKey THEN BuildRun(tokens, i + 1, o, d, path \o tokens[i].text)
    ELSE BuildNext(tokens, i, o, d, BuildKey(tokens[i], o, Lookup(d, tokens[i].name), path))

\* the first Key whose validation regex does not compile, 0 if all do
BadPattern(tokens, o) ==
    LET bad == {i \in 1..Len(tokens) : tokens[i].isKey /\ ~ValidationRegExp(tokens[i], o).ok}
    IN  IF bad = {} THEN 0 ELSE CHOOSE i \in bad : \A k \in bad : i <= k

\* tokensToFunction(tokens, options): the builder, or the SyntaxError of a pattern
tokensToFunction(tokens, o) ==
    IF BadPattern(tokens, o) # 0
    THEN [err |-> [kind |-> "RegExpSyntaxError",
                   why |-> ValidationRegExp(tokens[BadPattern(tokens, o)], o).why]]
    ELSE [err |-> NoError, tokens |-> tokens, options |-> o]

\* compile from the result of parse on
CompileParsed(parsed, o) ==
    IF parsed.err # NoError THEN [err |-> parsed.err] ELSE tokensToFunction(parsed.tokens, o)

\* compile(str, options)
compile(s, o) == CompileParsed(parse(s, o), o)

\* the function tokensToFunction returns, called with data
PathFunction(builder, d) == BuildRun(builder.tokens, 1, builder.options, d, <<>>)

----------------------------------------------------------------------------
(* tokensToRegexp, regexpToRegexp, arrayToRegexp, pathToRegexp             *)
(* The encode hook is the default one, the identity.                       *)

RECURSIVE CountGroupsIn(_, _, _, _)
\* the capturing groups a regex source opens at the offsets pos .. limit - 1
CountGroupsIn(source, pos, inClass, limit) ==
    IF pos >= limit \/ pos >= Len(source) THEN 0
    ELSE IF source[pos + 1] = "\\" THEN CountGroupsIn(source, pos + 2, inClass, limit)
    ELSE IF inClass THEN CountGroupsIn(source, pos + 1, source[pos + 1] # "]", limit)
    ELSE IF source[pos + 1] = "[" THEN CountGroupsIn(source, pos + 1, TRUE, limit)
    ELSE IF source[pos + 1] = "("
            /\ (At(source, pos + 1) # <<"?">>
                \/ (At(source, pos + 2) = <<"<">> /\ At(source, pos + 3) \notin {<<"=">>, <<"!">>}))
    THEN 1 + CountGroupsIn(source, pos + 1, FALSE, limit)
    ELSE CountGroupsIn(source, pos + 1, FALSE, limit)

\* the capturing groups of a regex source
CountGroups(source) == CountGroupsIn(source, 0, FALSE, Len(source))

\* the piece of the route one Key compiles to, the capture group holding
\* the prefix and the suffix too
KeyRouteWide(token) ==
    IF token.pattern # <<>>
    THEN <<"(">> \o escapeString(token.prefix) \o <<"(", "?", ":">> \o token.pattern \o <<")">>
         \o escapeString(token.suffix) \o <<")">> \o token.modifier
    ELSE <<"(", "?", ":">> \o escapeString(token.prefix) \o escapeString(token.suffix) \o <<")">>
         \o token.modifier

\* the piece of the route one Key compiles to
KeyRoute(token) ==
    LET prefix == escapeString(token.prefix)
        suffix == escapeString(token.suffix)
        pattern == token.pattern
        mod == IF token.modifier = <<"*">> THEN <<"?">> ELSE <<>>
    IN  IF pattern # <<>>
        THEN IF prefix # <<>> \/ suffix # <<>>
             THEN IF token.modifier \in {<<"+">>, <<"*">>}
                  THEN <<"(", "?", ":">> \o prefix \o <<"(", "(", "?", ":">> \o pattern
                       \o <<")", "(", "?", ":">> \o suffix \o prefix \o <<"(", "?", ":">>
                       \o pattern \o <<")", ")", "*", ")">> \o suffix \o <<")">> \o mod
                  ELSE <<"(", "?", ":">> \o prefix \o <<"(">> \o pattern \o <<")">>
                       \o suffix \o <<")">> \o token.modifier
             ELSE <<"(">> \o pattern \o <<")">> \o token.modifier
        ELSE <<"(", "?", ":">> \o prefix \o suffix \o <<")">> \o token.modifier

RECURSIVE RouteRun(_, _, _)
\* the for loop of tokensToRegexp: the route, the keys pushed, and for each
\* key pushed the number of the capturing group the route opens for it
RouteRun(tokens, i, acc) ==
    IF i > Len(tokens) THEN acc
    ELSE IF ~tokens[i].isKey
    THEN RouteRun(tokens, i + 1, [acc EXCEPT !.route = @ \o escapeString(tokens[i].text)])
    ELSE RouteRun(tokens, i + 1,
            [route |-> acc.route \o KeyRoute(tokens[i]),
             keys |-> IF tokens[i].pattern # <<>> THEN Append(acc.keys, tokens[i]) ELSE acc.keys,
             groupOf |-> IF tokens[i].pattern # <<>>
                         THEN Append(acc.groupOf, acc.base + CountGroups(acc.route) + 1)
                         ELSE acc.groupOf,
             base |-> acc.base])

DelimiterClass(o) == <<"[">> \o escapeString(OrDefault(o, "delimiter", DefaultDelimiter)) \o <<"]">>
EndsWithClass(o) == <<"[">> \o escapeString(OrDefault(o, "endsWith", <<>>)) \o <<"]", "|", "$">>

\* isEndDelimited: delimiter.indexOf(endToken[endToken.length - 1]) > -1
IsEndDelimited(tokens, o) ==
    IF tokens = <<>> THEN TRUE
    ELSE LET endToken == tokens[Len(tokens)]
         IN  ~endToken.isKey
             /\ Contains(DelimiterClass(o), endToken.text[Len(endToken.text)])

\* what tokensToRegexp appends after the tokens
RouteEnd(tokens, o) ==
    LET strict == OrElse(o, "strict", FALSE)
        end == OrElse(o, "end", TRUE)
        delimiter == DelimiterClass(o)
        endsWith == EndsWithClass(o)
    IN  IF end
        THEN (IF ~strict THEN delimiter \o <<"?">> ELSE <<>>)
             \o (IF OrDefault(o, "endsWith", <<>>) = <<>> THEN <<"$">>
                 ELSE <<"(", "?", "=">> \o endsWith \o <<")">>)
        ELSE (IF ~strict
              THEN <<"(", "?", ":">> \o delimiter \o <<"(", "?", "=">> \o endsWith \o <<")", ")", "?">>
              ELSE <<>>)
             \o (IF ~IsEndDelimited(tokens, o)
                 THEN <<"(", "?", "=">> \o delimiter \o <<"|">> \o endsWith \o <<")">>
                 ELSE <<>>)

Compiled(re, keys, groupOf) == [err |-> NoError, re |-> re, keys |-> keys, groupOf |-> groupOf]

\* the RegExp object kept: its source and flags (exec parses the source again)
RegExpObject(re) == [source |-> re.source, ignoreCase |-> re.ignoreCase, groups |-> re.groups]

\* new RegExp(route, flags(options)) and the keys that go with it
RouteRegExp(re, run) ==
    IF ~re.ok THEN [err |-> [kind |-> "RegExpSyntaxError", why |-> re.why]]
    ELSE Compiled(RegExpObject(re), run.keys, run.groupOf)

\* tokensToRegexp once its for loop has run
RouteToRegexp(tokens, o, run) ==
    RouteRegExp(RegExp(run.route \o RouteEnd(tokens, o), flags(o)), run)

\* tokensToRegexp(tokens, keys, options); base is the number of capturing
\* groups of the sub-patterns compiled before this one
tokensToRegexp(tokens, keys, groupOf, base, o) ==
    RouteToRegexp(tokens, o,
                  RouteRun(tokens, 1, [route |-> IF OrElse(o, "start", TRUE) THEN <<"^">> ELSE <<>>,
                                       keys |-> keys, groupOf |-> groupOf, base |-> base]))

\* stringToRegexp from the result of parse on
ParsedToRegexp(parsed, keys, groupOf, base, o) ==
    IF parsed.err # NoError THEN [err |-> parsed.err]
    ELSE tokensToRegexp(parsed.tokens, keys, groupOf, base, o)

\* stringToRegexp(path, keys, options)
stringToRegexp(s, keys, groupOf, base, o) == ParsedToRegexp(parse(s, o), keys, groupOf, base, o)

\* /\((?:\?<(.*?)>)?(?!\?)/g
groupsRegex ==
    RegExp(<<"\\", "(", "(", "?", ":", "\\", "?", "<", "(", ".", "*", "?", ")", ">", ")", "?",
             "(", "?", "!", "\\", "?", ")">>, FALSE)

RECURSIVE Harvest(_, _, _, _, _, _)
\* the body of the while loop of regexpToRegexp, r being execResult
HarvestNext(source, r, index, keys, groupOf, base) ==
    LET named == r.m[2] # Undefined /\ r.m[2] # <<>>
        key == Key(IF named THEN r.m[2] ELSE NumberText(index), ~named, <<>>, <<>>, <<>>, <<>>)
        opens == CountGroupsIn(source, 0, FALSE, r.index)
        isGroup == CountGroupsIn(source, 0, FALSE, r.index + 1) > opens
    IN  IF ~r.matched THEN [keys |-> keys, groupOf |-> groupOf]
        ELSE Harvest(source, r.end, IF named THEN index ELSE index + 1,
                     Append(keys, key),
                     Append(groupOf, IF isGroup THEN base + opens + 1 ELSE 0), base)

\* the while loop of regexpToRegexp, groupsRegex.lastIndex being `from`
Harvest(source, from, index, keys, groupOf, base) ==
    HarvestNext(source, ReExecFrom(groupsRegex, source, from), index, keys, groupOf, base)

\* the regex handed in, with the keys harvested from its source
Harvested(re, h) == Compiled(re, h.keys, h.groupOf)

\* regexpToRegexp(path, keys)
regexpToRegexp(re, keys, groupOf, base) ==
    Harvested(re, Harvest(re.source, 0, 0, keys, groupOf, base))

\* a Path: a string, a RegExp, or a list of them
StringPath(s) == [k |-> "string", s |-> s]
RegExpPath(source, ignoreCase) ==
    [k |-> "regexp", re |-> RegExpObject(RegExp(source, ignoreCase))]
ArrayPath(items) == [k |-> "array", items |-> items]

\* pathToRegexp for the two kinds of element a list holds
elementToRegexp(path, keys, groupOf, base, o) ==
    IF path.k = "regexp" THEN regexpToRegexp(path.re, keys, groupOf, base)
    ELSE stringToRegexp(path.s, keys, groupOf, base, o)

RECURSIVE PartsRun(_, _, _, _)
\* the map after paths[i] compiled to part
PartsNext(paths, i, acc, o, part) ==
    IF part.err # NoError THEN [acc EXCEPT !.err = part.err]
    ELSE PartsRun(paths, i + 1,
                  [err |-> NoError,
                   joined |-> acc.joined \o (IF i > 1 THEN <<"|">> ELSE <<>>) \o part.re.source,
                   keys |-> part.keys, groupOf |-> part.groupOf], o)

\* paths.map((path) => pathToRegexp(path, keys, options).source)
PartsRun(paths, i, acc, o) ==
    IF i > Len(paths) \/ acc.err # NoError THEN acc
    ELSE PartsNext(paths, i, acc, o,
                   elementToRegexp(paths[i], acc.keys, acc.groupOf, CountGroups(acc.joined), o))

\* new RegExp(`(?:${parts.join("|")})`, flags(options))
PartsToRegexp(parts, o) ==
    IF parts.err # NoError THEN [err |-> parts.err]
    ELSE RouteRegExp(RegExp(<<"(", "?", ":">> \o parts.joined \o <<")">>, flags(o)), parts)

\* arrayToRegexp(paths, keys, options)
arrayToRegexp(paths, o) ==
    PartsToRegexp(PartsRun(paths, 1, [err |-> NoError, joined |-> <<>>, keys |-> <<>>, groupOf |-> <<>>], o), o)

\* pathToRegexp(path, keys, options) with keys empty, as match calls it
pathToRegexp(path, o) ==
    IF path.k = "array" THEN arrayToRegexp(path.items, o)
    ELSE elementToRegexp(path, <<>>, <<>>, 0, o)

\* match(str, options): the regex and keys the matcher closes over
match(path, o) == pathToRegexp(path, o)

----------------------------------------------------------------------------
(* regexpToFunction: the matcher.  The decode hook is the default one.     *)

RECURSIVE IndexOf(_, _, _)
\* s.indexOf(sep, from), -1 when absent
IndexOf(s, sep, from) ==
    IF from + Len(sep) > Len(s) THEN -1
    ELSE IF SubStr(s, from, from + Len(sep)) = sep THEN from
    ELSE IndexOf(s, sep, from + 1)

RECURSIVE SplitFrom(_, _, _)
SplitFrom(s, sep, from) ==
    LET at == IndexOf(s, sep, from)
    IN  IF at < 0 THEN <<SubStr(s, from, Len(s))>>
        ELSE <<SubStr(s, from, at)>> \o SplitFrom(s, sep, at + Len(sep))

\* s.split(sep)
split(s, sep) ==
    IF sep = <<>> THEN [k \in 1..Len(s) |-> <<s[k]>>] ELSE SplitFrom(s, sep, 0)

\* params[name] = value
SetParam(params, name, value) ==
    [n \in (DOMAIN params) \cup {name} |-> IF n = name THEN value ELSE params[n]]

RECURSIVE ParamsRun(_, _, _, _)
\* the for loop over the capture groups of a match
ParamsRun(m, i, keys, params) ==
    IF i > Len(m) - 1 THEN [threw |-> FALSE, params |-> params]
    ELSE IF m[i + 1] = Undefined THEN ParamsRun(m, i + 1, keys, params)
    ELSE IF i > Len(keys) THEN [threw |-> TRUE, params |-> params, group |-> i]
    ELSE LET key == keys[i]
         IN  IF key.modifier \in {<<"*">>, <<"+">>}
             THEN ParamsRun(m, i + 1, keys,
                            SetParam(params, key.name,
                                     ArrayValue(split(m[i + 1], key.prefix \o key.suffix))))
             ELSE ParamsRun(m, i + 1, keys, SetParam(params, key.name, StringValue(m[i + 1])))

\* what the matcher returns after its for loop, if the loop did not throw
MatchResult(r, p) ==
    IF p.threw THEN [kind |-> "TypeError", group |-> p.group, m |-> r.m]
    ELSE [kind |-> "match", path |-> r.m[1], index |-> r.index, params |-> p.params, m |-> r.m]

\* the matcher from the result m of re.exec(pathname) on
MatchExec(compiled, r) ==
    IF ~r.matched THEN [kind |-> "false"]
    ELSE MatchResult(r, ParamsRun(r.m, 1, compiled.keys, <<>>))

\* the function regexpToFunction returns, called with pathname
MatchFunction(compiled, name) ==
    MatchExec(compiled, exec(RegExp(compiled.re.source, compiled.re.ignoreCase), name))

----------------------------------------------------------------------------
(* The lexer, one loop iteration per step.                                 *)

Idle == [kind |-> "idle"]

InitLex ==
    /\ str \in StringsUpTo({"a", ":", "(", ")", "?", "\\", "{", "}", "/"}, MaxLexLen)
    /\ lx = LexStart
    /\ pc = "lexer"
    /\ input = Idle /\ opts = Idle /\ art = Idle /\ fn = Idle
    /\ data = Idle /\ out = Idle /\ pathname = Idle /\ res = Idle

NotLexing == UNCHANGED <<str, pc, input, opts, art, fn, data, out, pathname, res>>

StepModifier ==
    /\ LexRunning(str, lx) /\ IsModifierChar(LexChar(str, lx))
    /\ lx' = LexModifier(str, lx) /\ NotLexing

StepEscaped ==
    /\ LexRunning(str, lx) /\ LexChar(str, lx) = <<"\\">>
    /\ lx' = LexEscaped(str, lx) /\ NotLexing

StepOpen ==
    /\ LexRunning(str, lx) /\ LexChar(str, lx) = <<"{">>
    /\ lx' = LexOpen(str, lx) /\ NotLexing

StepClose ==
    /\ LexRunning(str, lx) /\ LexChar(str, lx) = <<"}">>
    /\ lx' = LexClose(str, lx) /\ NotLexing

StepName ==
    /\ LexRunning(str, lx) /\ LexChar(str, lx) = <<":">>
    /\ lx' = LexName(str, lx) /\ NotLexing

StepPattern ==
    /\ LexRunning(str, lx) /\ LexChar(str, lx) = <<"(">>
    /\ lx' = LexPattern(str, lx) /\ NotLexing

StepLiteral ==
    /\ LexRunning(str, lx) /\ ~IsModifierChar(LexChar(str, lx))
    /\ LexChar(str, lx) \notin {<<"\\">>, <<"{">>, <<"}">>, <<":">>, <<"(">>}
    /\ lx' = LexLiteral(str, lx) /\ NotLexing

StepEnd ==
    /\ ~lx.done /\ lx.err = NoError /\ lx.i >= Len(str)
    /\ lx' = LexEnd(str, lx) /\ NotLexing

NextLex ==
    \/ StepModifier \/ StepEscaped \/ StepOpen \/ StepClose
    \/ StepName \/ StepPattern \/ StepLiteral \/ StepEnd

SpecLex == InitLex /\ [][NextLex]_vars

----------------------------------------------------------------------------
(* Claims about the lexer.                                                 *)

LexFinished == lx.done \/ lx.err # NoError

\* C10: the scan position never passes the end of the string: every escape
\* takes two positions inside the string and yields an ESCAPED_CHAR token of
\* exactly one character, and the scan ends with one END token, the last,
\* whose index is the length of the string.
C10_LexerStaysInside ==
    /\ lx.i <= Len(str)
    /\ \A k \in 1..Len(lx.tokens) :
          lx.tokens[k].type = "ESCAPED_CHAR" =>
             /\ lx.tokens[k].index + 1 < Len(str)
             /\ lx.tokens[k].value # Undefined
             /\ Len(lx.tokens[k].value) = 1
    /\ lx.done =>
          /\ lx.tokens[Len(lx.tokens)] = LexToken("END", Len(str), <<>>)
          /\ Cardinality({k \in 1..Len(lx.tokens) : lx.tokens[k].type = "END"}) = 1

RECURSIVE Balances(_, _, _)
\* the parentheses opened before offset j, depth of them, close again
Balances(s, j, depth) ==
    IF j >= Len(s) THEN FALSE
    ELSE IF s[j + 1] = "\\" THEN Balances(s, j + 2, depth)
    ELSE IF s[j + 1] = ")" THEN depth = 1 \/ Balances(s, j + 1, depth - 1)
    ELSE IF s[j + 1] = "(" THEN Balances(s, j + 1, depth + 1)
    ELSE Balances(s, j + 1, depth)

RECURSIVE Escaped(_, _)
\* the character at offset k is taken by a backslash before it
Escaped(s, k) == k > 0 /\ s[k] = "\\" /\ ~Escaped(s, k - 1)

\* the offsets of the opening parentheses that never balance
UnbalancedOpens(s) ==
    {k \in 0..(Len(s) - 1) : s[k + 1] = "(" /\ ~Escaped(s, k) /\ ~Balances(s, k + 1, 1)}

Least(S) == CHOOSE k \in S : \A j \in S : k <= j

\* the nested opening parentheses after offset k that "?" does not follow
CapturingAfter(s, k) ==
    {j \in (k + 1)..(Len(s) - 1) : s[j + 1] = "(" /\ ~Escaped(s, j) /\ At(s, j + 1) # <<"?">>}

\* C3 as stated: a pattern with an inline pattern whose parentheses never
\* balance, "/:(" among them, aborts with UnbalancedPattern at the offset of
\* the opening parenthesis and with no other error.
C3_UnbalancedAlwaysReported ==
    (LexFinished /\ UnbalancedOpens(str) # {}) =>
        lx.err = SyntaxError("UnbalancedPattern", Least(UnbalancedOpens(str)))

\* C3 amended: the scan is left to right and its first error wins.  With k
\* the offset of the first opening parenthesis that never balances: an error
\* in the text before k is the one reported ("/:(" aborts with
\* MissingParameterName at 1); else a "?" right after k gives
\* PatternCannotStartWithQuestionMark at k + 1; else a nested "(" that "?"
\* does not follow gives CapturingGroupNotAllowed at its offset; else the
\* error is UnbalancedPattern at k.  No such pattern lexes, and
\* UnbalancedPattern is reported for no other pattern.
C3_UnbalancedReportedUnlessEarlierError ==
    LexFinished =>
        LET opens == UnbalancedOpens(str)
            k == Least(opens)
            before == lexer(SubStr(str, 0, k))
            nested == CapturingAfter(str, k)
        IN  /\ opens # {} =>
                 /\ lx.err # NoError
                 /\ lx.err = IF before.err # NoError THEN before.err
                             ELSE IF At(str, k + 1) = <<"?">>
                             THEN SyntaxError("PatternCannotStartWithQuestionMark", k + 1)
                             ELSE IF nested # {}
                             THEN SyntaxError("CapturingGroupNotAllowed", Least(nested))
                             ELSE SyntaxError("UnbalancedPattern", k)
            /\ str = <<"/", ":", "(">> => lx.err = SyntaxError("MissingParameterName", 1)
            /\ lx.err.kind = "UnbalancedPattern" => (opens # {} /\ lx.err.at = k)

\* an inline pattern after a name is opened and the string ends
C3_Witness == str = <<":", "a", "(">> /\ lx.err = SyntaxError("UnbalancedPattern", 2)

----------------------------------------------------------------------------
(* The calls a consumer makes: match(path, options) and then the matcher   *)
(* it returns; compile(str, options) and then the builder it returns.      *)

Start ==
    /\ pc = "start"
    /\ str = <<>> /\ lx = LexStart
    /\ input = Idle /\ opts = Idle /\ art = Idle /\ fn = Idle
    /\ data = Idle /\ out = Idle /\ pathname = Idle /\ res = Idle

\* match(path, options)
Match(paths, options) ==
    /\ pc = "start"
    /\ \E path \in paths, o \in options :
          /\ input' = path
          /\ opts' = o
          /\ art' = match(path, o)
    /\ pc' = "matcher"
    /\ UNCHANGED <<str, lx, fn, data, out, pathname, res>>

\* the matcher called with a pathname
RunMatcher(names) ==
    /\ pc = "matcher" /\ art.err = NoError
    /\ \E name \in names :
          /\ pathname' = name
          /\ res' = MatchFunction(art, name)
    /\ pc' = "matched"
    /\ UNCHANGED <<str, lx, input, opts, art, fn, data, out>>

\* compile(str, options)
Compile(patterns, options) ==
    /\ pc = "start"
    /\ \E s \in patterns, o \in options :
          /\ input' = StringPath(s)
          /\ opts' = o
          /\ fn' = compile(s, o)
    /\ pc' = "builder"
    /\ UNCHANGED <<str, lx, art, data, out, pathname, res>>

\* the names of the Keys among the Path Tokens
KeyNames(tokens) == {tokens[i].name : i \in {k \in 1..Len(tokens) : tokens[k].isKey}}

\* the builder called with data: an object that gives some of the Keys (all
\* of them when whole) a value out of values, or no object at all
RunBuilder(values, whole) ==
    /\ pc = "builder" /\ fn.err = NoError
    /\ \E given \in (IF whole THEN {KeyNames(fn.tokens)} ELSE SUBSET KeyNames(fn.tokens)) :
          \E d \in {DataObject(props) : props \in [given -> values]}
                   \cup (IF whole THEN {} ELSE {[k |-> "undefined"]}) :
              /\ data' = d
              /\ out' = PathFunction(fn, d)
    /\ pc' = "built"
    /\ UNCHANGED <<str, lx, input, opts, art, fn, pathname, res>>

\* match called with the pattern and options compile was called with
MatchSame ==
    /\ pc = "built" /\ out.kind = "ok"
    /\ art' = match(input, opts)
    /\ pc' = "matcher"
    /\ UNCHANGED <<str, lx, input, opts, fn, data, out, pathname, res>>

\* the matcher called with the path the builder returned
RunMatcherOnBuilt ==
    /\ pc = "matcher" /\ art.err = NoError
    /\ pathname' = out.path
    /\ res' = MatchFunction(art, out.path)
    /\ pc' = "matched"
    /\ UNCHANGED <<str, lx, input, opts, art, fn, data, out>>

----------------------------------------------------------------------------
(* Inputs.                                                                 *)

\* longest pathname handed to a matcher
MaxPathLen == 4
\* most segments a pattern is put together from
MaxSegments == 2
\* longest string value given to a builder
MaxValueLen == 2
\* longest array value given to a builder
MaxArrayLen == 2

RECURSIVE Concat(_)
Concat(ss) == IF ss = <<>> THEN <<>> ELSE Head(ss) \o Concat(Tail(ss))

\* the patterns put together from at most n of the segments
Patterns(segments, n) == {Concat(ss) : ss \in StringsUpTo(segments, n)}

----------------------------------------------------------------------------
(* Matching arbitrary pathnames.                                           *)

MatchSegments ==
    { <<"/">>,
      <<"/", "a">>,
      <<"/", "a", "]">>,
      <<"/", ":", "f">>,
      <<"/", ":", "b", "?">>,
      <<"/", ":", "s", "+">>,
      <<"/", "(", "b", ")", "?">>,
      <<"/", ":", "f", "(", "(", "?", "<", "x", ">", "a", ")", ")">> }

MatchPaths ==
    {StringPath(s) : s \in Patterns(MatchSegments, MaxSegments)}
    \cup {ArrayPath(<<StringPath(<<"/", "(", "a", ")">>), StringPath(<<"/", "a", "/", "(", "b", ")">>)>>),
          ArrayPath(<<StringPath(<<"/", ":", "f">>), RegExpPath(<<"\\", "/", "a", "(", "b", ")">>, FALSE)>>),
          RegExpPath(<<"^", "\\", "/", "(", "?", "<", "i", "d", ">", "a", ")", "(", "b", ")", "?", "$">>, FALSE)}

MatchOptions ==
    {NoOptions, [end |-> FALSE], [strict |-> TRUE], [start |-> FALSE], [end |-> FALSE, strict |-> TRUE]}

Pathnames == StringsUpTo({"/", "a", "b", "]"}, MaxPathLen)

Next ==
    \/ Match(MatchPaths, MatchOptions)
    \/ RunMatcher(Pathnames)

Spec == Start /\ [][Next]_vars

----------------------------------------------------------------------------
(* Building paths from every kind of value.                                *)

BuildPatterns ==
    { <<"/", "u", "/", ":", "i">>,
      <<"/", ":", "a", "/", ":", "b", "?">>,
      <<"/", ":", "s", "+">>,
      <<"/", ":", "s", "*">>,
      <<"/", ":", "a", "/", ":", "s", "+">>,
      <<"/", ":", "s", "*", "/", ":", "b", "?">>,
      <<"/", ":", "n", "(", "\\", "d", ")">>,
      <<"{", "/", ":", "s", "-", "}", "+">>,
      <<"/", "a", "{", "b", "}">>,
      <<"/", "a", "{", "b", "}", "?", "/", ":", "s", "*">> }

BuildOptions == {NoOptions, [validate |-> FALSE]}

BuildValues ==
    {StringValue(s) : s \in StringsUpTo({"v", "/"}, MaxValueLen)}
    \cup {ArrayValue(a) : a \in StringsUpTo({<<"v">>, <<"/">>}, MaxArrayLen)}
    \cup {NumberValue(7), [k |-> "other"]}

NextBuild ==
    \/ Compile(BuildPatterns, BuildOptions)
    \/ RunBuilder(BuildValues, FALSE)

SpecBuild == Start /\ [][NextBuild]_vars

----------------------------------------------------------------------------
(* Building a path and matching it with the same pattern and options.      *)

RoundTripPatterns ==
    { <<>>,
      <<"/", "x">>,
      <<"/", ":", "a">>,
      <<"-", ":", "b">>,
      <<"/", ":", "a", "/", ":", "b">>,
      <<"/", ":", "a", "-", ":", "b">>,
      <<"/", ":", "a", ".", ":", "b">>,
      <<"/", ":", "a", "/", ":", "a">>,
      <<"/", ":", "a", "/", "x">>,
      <<"/", ":", "a", "x">>,
      <<"/", "x", "/", ":", "b">>,
      <<"/", ":", "a", "/", "x", "-", ":", "b">> }

RoundTripOptions ==
    {NoOptions, [end |-> FALSE], [start |-> FALSE], [strict |-> TRUE],
     [endsWith |-> <<"-">>], [delimiter |-> <<"-">>]}

RoundTripValues ==
    {StringValue(s) : s \in StringsUpTo({"v", "-"}, MaxValueLen) \cup {<<"v", "/">>}}
    \cup {NumberValue(7)}

NextRoundTrip ==
    \/ Compile(RoundTripPatterns, RoundTripOptions)
    \/ RunBuilder(RoundTripValues, TRUE)
    \/ MatchSame
    \/ RunMatcherOnBuilt

SpecRoundTrip == Start /\ [][NextRoundTrip]_vars

----------------------------------------------------------------------------
(* Building and matching repeated parameters.                              *)

RepeatPatterns ==
    { <<"/", ":", "s", "+">>,
      <<"/", ":", "s", "*">>,
      <<"/", "x", "/", ":", "s", "+">>,
      <<"{", ":", "s", "-", "}", "+">>,
      <<"{", "/", ":", "s", "-", "}", "+">>,
      <<"{", "/", ":", "s", "-", "}", "*">> }

RepeatOptions == {NoOptions, [strict |-> TRUE], [end |-> FALSE]}

RepeatValues ==
    {ArrayValue(a) : a \in StringsUpTo({<<"v">>, <<"w">>, <<"v", "w">>}, MaxArrayLen + 1) \ {<<>>}}

NextRepeat ==
    \/ Compile(RepeatPatterns, RepeatOptions)
    \/ RunBuilder(RepeatValues, TRUE)
    \/ MatchSame
    \/ RunMatcherOnBuilt

SpecRepeat == Start /\ [][NextRepeat]_vars

----------------------------------------------------------------------------
(* Claims about the builder.                                               *)

Building == pc = "built"

\* the value the data object holds for the i-th Path Token, a Key
ValueOf(i) == Lookup(data, fn.tokens[i].name)

\* what the builder's loop holds once it has passed the first i Path Tokens
After(i) == BuildRun(SubSeq(fn.tokens, 1, i), 1, fn.options, data, <<>>)

\* the Keys the loop reaches: no Path Token before them made the call fail
Reached(i) == fn.tokens[i].isKey /\ After(i - 1).kind = "ok"

Usable(value) == value.k \in {"string", "number", "array"}

Optional(token) == token.modifier \in {<<"?">>, <<"*">>}

\* C6: a Key without a usable value (absent, or neither string, number nor
\* sequence) adds nothing and the call goes on when its modifier is "?" or
\* "*"; otherwise the call fails with ExpectedStringOrArray, naming the Key
\* and "an array" for "+", "a string" for no modifier.
C6_UnusableValue ==
    Building =>
        \A i \in 1..Len(fn.tokens) :
            (Reached(i) /\ ~Usable(ValueOf(i))) =>
                IF Optional(fn.tokens[i])
                THEN After(i) = After(i - 1)
                ELSE /\ After(i) = [kind |-> "ExpectedStringOrArray", name |-> fn.tokens[i].name,
                                    expected |-> IF fn.tokens[i].modifier = <<"+">>
                                                 THEN "an array" ELSE "a string"]
                     /\ out = After(i)

C6_Witness ==
    /\ Building
    /\ out.kind = "ExpectedStringOrArray" /\ out.expected = "an array"
    /\ \E i \in 1..Len(fn.tokens) : Reached(i) /\ ValueOf(i) = Missing /\ fn.tokens[i].modifier = <<"+">>

RECURSIVE Joined(_, _)
\* prefix + element + suffix for each element, in order
Joined(token, items) ==
    IF items = <<>> THEN <<>>
    ELSE token.prefix \o Head(items) \o token.suffix \o Joined(token, Tail(items))

\* every element passes the validation the options ask for
ElementsValid(token, items) ==
    OrElse(fn.options, "validate", TRUE) =>
        \A j \in 1..Len(items) : test(ValidationRegExp(token, fn.options), items[j])

----------------------------------------------------------------------------
(* Claims about building a path and matching it back.                      *)

Matched == pc = "matched"

\* the builder has been called
Called == pc \in {"built", "matcher", "matched"}

\* the pattern a parameter without a custom sub-pattern gets
DefaultPattern(o) ==
    <<"[", "^">> \o escapeString(OrDefault(o, "delimiter", DefaultDelimiter)) \o <<"]", "+", "?">>

\* only literal text and named required parameters with the default pattern
NamedRequiredOnly(tokens, o) ==
    \A i \in 1..Len(tokens) :
        tokens[i].isKey =>
            /\ ~tokens[i].ordinal
            /\ tokens[i].modifier = <<>>
            /\ tokens[i].pattern = DefaultPattern(o)

\* the string form of a string or number value
Segment(value) == IF value.k = "number" THEN NumberText(value.n) ELSE value.text

\* p gives every parameter a string or number that passes the validation
ValidAssignment(tokens, o, p) ==
    /\ DOMAIN p = KeyNames(tokens)
    /\ \A i \in 1..Len(tokens) :
          tokens[i].isKey =>
              /\ p[tokens[i].name].k \in {"string", "number"}
              /\ test(ValidationRegExp(tokens[i], o), Segment(p[tokens[i].name]))

\* params equals p, numbers compared as their string form
SameParams(params, p) ==
    /\ DOMAIN params = DOMAIN p
    /\ \A n \in DOMAIN p : params[n] = StringValue(Segment(p[n]))

\* the pattern text that comes right after the parameter of the i-th token
FollowText(tokens, i) ==
    tokens[i].suffix
    \o (IF i = Len(tokens) THEN <<>>
        ELSE IF tokens[i + 1].isKey THEN tokens[i + 1].prefix
        ELSE tokens[i + 1].text)

\* every parameter is followed by the end of the pattern or by a delimiter
EveryKeyDelimited(tokens, o) ==
    \A i \in 1..Len(tokens) :
        tokens[i].isKey =>
            \/ i = Len(tokens) /\ tokens[i].suffix = <<>>
            \/ /\ FollowText(tokens, i) # <<>>
               /\ Contains(OrDefault(o, "delimiter", DefaultDelimiter), FollowText(tokens, i)[1])

\* building from the assignment succeeds, the same pattern and options
\* compile to a matcher, and matching the path built gives the assignment back
RoundTrips ==
    /\ pc = "built" => out.kind = "ok"
    /\ pc = "matcher" => art.err = NoError
    /\ Matched => res.kind = "match" /\ res.path = out.path /\ SameParams(res.params, data.props)

\* C1 as stated: for every pattern of literal text and named required
\* parameters with the default pattern and every assignment of valid values,
\* matching the path built from the assignment returns the assignment.
C1_RoundTrip ==
    (Called /\ data.k = "object" /\ NamedRequiredOnly(fn.tokens, opts)
        /\ ValidAssignment(fn.tokens, opts, data.props)) => RoundTrips

\* C1 with its domain narrowed: the round trip holds when, besides, every
\* parameter is followed in the pattern by the end of the pattern or by a
\* delimiter character and no endsWith option is given.
C1_RoundTripWhenDelimited ==
    (Called /\ data.k = "object" /\ NamedRequiredOnly(fn.tokens, opts)
        /\ ValidAssignment(fn.tokens, opts, data.props)
        /\ EveryKeyDelimited(fn.tokens, opts)
        /\ OrDefault(opts, "endsWith", <<>>) = <<>>) => RoundTrips

C1_Witness ==
    /\ Matched /\ res.kind = "match"
    /\ NamedRequiredOnly(fn.tokens, opts) /\ EveryKeyDelimited(fn.tokens, opts)
    /\ OrDefault(opts, "endsWith", <<>>) = <<>>
    /\ Cardinality(DOMAIN data.props) = 2
    /\ \E n \in DOMAIN data.props : data.props[n].k = "number"
    /\ SameParams(res.params, data.props)

\* the Keys that repeat and carry a prefix or a suffix
Separated(keys) ==
    {k \in 1..Len(keys) :
        /\ keys[k].modifier \in {<<"*">>, <<"+">>}
        /\ keys[k].prefix # <<>> \/ keys[k].suffix # <<>>}

\* C4: for a repeating Key with a prefix or a suffix the matcher splits the
\* captured string on the string the regex requires between repetitions, so
\* a path built from a non-empty sequence of valid values matches back to
\* that sequence, in order.
C4_RepeatedSplitsBack ==
    (Matched /\ OrElse(opts, "end", TRUE)) =>
        \A k \in Separated(art.keys) :
            /\ res.kind = "match"
            /\ art.keys[k].name \in DOMAIN res.params
            /\ res.params[art.keys[k].name] = data.props[art.keys[k].name]

----------------------------------------------------------------------------
(* Claims about the matcher.                                               *)

\* the capture groups of the match, m[1] .. m[m.length - 1], that are defined
DefinedGroups == {i \in 1..(Len(res.m) - 1) : res.m[i + 1] # Undefined}

\* C2: a matcher of a pattern that compiled never raises: it returns false or
\* a MatchResult, and every defined capture group i of the regex has a Key at
\* position i - 1 of the keys list.
C2_MatcherNeverThrows ==
    Matched =>
        /\ res.kind \in {"false", "match"}
        /\ res.kind # "false" => \A i \in DefinedGroups : i <= Len(art.keys)

\* the Keys that carry the name of key k and whose own capture group took part
TookPart(k) ==
    {j \in 1..Len(art.keys) :
        /\ art.keys[j].name = art.keys[k].name
        /\ art.groupOf[j] > 0
        /\ art.groupOf[j] \in DefinedGroups}

\* C5: in every MatchResult, params has an entry for a Key's name if and only
\* if that Key's capture group took part in the match; an unmatched optional
\* group leaves no entry.
C5_ParamsIffGroupTookPart ==
    (Matched /\ res.kind = "match") =>
        \A k \in 1..Len(art.keys) :
            (art.keys[k].name \in DOMAIN res.params) <=> (TookPart(k) # {})

\* the positions of the unnamed keys, in order
Unnamed(keys) == {k \in 1..Len(keys) : keys[k].ordinal}

\* C8: the keys of a list of sub-patterns are in step with the joined regex:
\* the k-th key belongs to the k-th capturing group, and the unnamed keys are
\* numbered 0, 1, 2 ... left to right over the whole list, no number twice.
C8_ListKeysConsistent ==
    (pc = "matcher" /\ input.k = "array" /\ art.err = NoError) =>
        /\ \A k \in 1..Len(art.keys) : art.groupOf[k] = k
        /\ \A k \in Unnamed(art.keys) :
              art.keys[k].name = NumberText(Cardinality({j \in Unnamed(art.keys) : j < k}))

\* the end:false lookahead (?=delimiter|endsWith) the route may end with
FinalLookahead(o) ==
    <<"(", "?", "=">> \o DelimiterClass(o) \o <<"|">> \o EndsWithClass(o) \o <<")">>

EndsWith(s, tail) == Len(s) >= Len(tail) /\ SubStr(s, Len(s) - Len(tail), Len(s)) = tail

\* the token list is empty or ends with a literal whose last character is one
\* of the configured delimiters
EndsOnDelimiter(tokens, o) ==
    \/ tokens = <<>>
    \/ /\ ~tokens[Len(tokens)].isKey
       /\ Contains(OrDefault(o, "delimiter", DefaultDelimiter),
                   tokens[Len(tokens)].text[Len(tokens[Len(tokens)].text)])

\* the character after the match is a delimiter, an end-suffix character, or
\* the input ends there
Delimited(name, end, o) ==
    \/ end = Len(name)
    \/ Contains(OrDefault(o, "delimiter", DefaultDelimiter) \o OrDefault(o, "endsWith", <<>>),
                name[end + 1])

\* C9: with end:false the final lookahead is left out exactly when the token
\* list is empty or ends with a literal ending on a configured delimiter;
\* otherwise a match is always followed by a delimiter, an end-suffix
\* character or the end of the input.
C9_PrefixMatchIsDelimited ==
    (pc \in {"matcher", "matched"} /\ input.k = "string" /\ art.err = NoError
        /\ ~OrElse(opts, "end", TRUE)) =>
        LET tokens == parse(input.s, opts).tokens
        IN  /\ EndsWith(art.re.source, FinalLookahead(opts)) <=> ~EndsOnDelimiter(tokens, opts)
            /\ (Matched /\ res.kind = "match" /\ ~EndsOnDelimiter(tokens, opts)) =>
                  Delimited(pathname, res.index + Len(res.path), opts)

====
